---- MODULE Spec2Model ----
(***************************************************************************)
(* A model of sysutil.py: a script that reads host metrics through psutil  *)
(* and prints a report of six sections.  The program is single-threaded;   *)
(* pc is the statement about to run, idx the position of the next call in  *)
(* the __main__ block.  An exception nobody catches ends the run.          *)
(*                                                                         *)
(* out holds the lines printed by the call in progress (or by the call     *)
(* that has just returned): standard output is write-only, so the program  *)
(* never reads back what earlier sections printed.                         *)
(***************************************************************************)
EXTENDS Integers, Sequences, FiniteSets, TLC

\* ------------------------------------------------------------------ bounds
MaxCores == 2
MaxNics == 2
MaxGroups == 2
MaxSecs == 3700
MaxDuplexCode == 3

\* ------------------------------------------------------- program constants
SpanWidth == 80
SpacerFill == 78
NIC_DUPLEX_FULL == 2
NIC_DUPLEX_HALF == 1
NIC_DUPLEX_UNKNOWN == 0
AF_INET == 2
AF_INET6 == 10
AF_LINK == 17
MEGABYTE == 1024 * 1024
GIGABYTE == 1024 * 1024 * 1024

\* Python's None for an optional string, and for power_plugged (a tri-state).
None == "None"
\* Python's None / a value where the value is a record or a tuple.
Nothing == <<>>
Some(x) == <<x>>

\* A printed line: what print() was given, as a kind and its arguments.
Line(kind, args) == [kind |-> kind, args |-> args]
Blank == Line("blank", <<>>)

Repeat(ch, n) == [i \in 1..n |-> ch]

SECTION_SPAN == Line("raw", Repeat("*", SpanWidth))
SPACER == Line("raw", <<"*">> \o Repeat(" ", SpacerFill) \o <<"*">>)
PROGRAM_NAME == Line("title", <<"*            USING PSUTIL TO RETRIEVE USEFUL SYSTEM INFORMATION                *">>)
CPU_INFO == Line("title", <<"*                               CPU INFORMATION                                *">>)
MEMORY_INFO == Line("title", <<"*                            MEMORY INFORMATION                                *">>)
DISK_INFO == Line("title", <<"*                              DISK INFORMATION                                *">>)
NETWORK_INFO == Line("title", <<"*                           NETWORK INFORMATION                                *">>)
CLIMATE_INFO == Line("title", <<"*                           CLIMATE INFORMATION                                *">>)

\* The calls of the __main__ block after its first print, in order.
MainCallsSwapped == <<"banner", "memory", "cpu", "disk", "network", "climate">>
MainCalls == <<"banner", "cpu", "memory", "disk", "network", "climate">>

VARIABLES pc, idx, out, started, finished, failed,
          samples, aggSample, coreSample, num_physical_cores, per_core_cpu_usage,
          stats, io_counters, if_addrs, nicIdx,
          temps, fans, battery, names,
          secs, clock, st

ctl == <<pc, idx, out, started, finished, failed>>
cpuVars == <<samples, aggSample, coreSample, num_physical_cores, per_core_cpu_usage>>
netVars == <<stats, io_counters, if_addrs, nicIdx>>
climVars == <<temps, fans, battery, names>>
fnVars == <<secs, clock, st>>
vars == <<ctl, cpuVars, netVars, climVars, fnVars>>

\* ------------------------------------------------------------ conversions

\* n / d rounded to an integer, n, d >= 0, ties to even: Python's round and
\* '%.1f' on an exactly representable quotient (the caller scales by 10^k).
RoundDiv(n, d) ==
    LET q == n \div d
        r == n % d
    IN  IF 2 * r > d \/ (2 * r = d /\ q % 2 = 1) THEN q + 1 ELSE q

\* round(n / GIGABYTE, 1), in tenths of a GB.  Byte counts are multiples of
\* MEGABYTE, so the quotient is formed in MB.
bytes_to_gb(n) == RoundDiv((n \div MEGABYTE) * 10, GIGABYTE \div MEGABYTE)

\* psutil._common.bytes2human for 1024 <= n < 2^30: '%.1f%s' of n / prefix
\* with the largest prefix not above n.
bytes2human(n) ==
    IF n >= MEGABYTE
    THEN <<RoundDiv((n \div 1024) * 10, 1024), "M">>
    ELSE <<RoundDiv(n * 10, 1024), "K">>

\* --------------------------------------------------------------- the start

InitCommon ==
    /\ idx = 1
    /\ out = <<>>
    /\ started = <<>>
    /\ finished = <<>>
    /\ failed = "none"
    /\ samples = 0
    /\ aggSample = 0
    /\ coreSample = 0
    /\ num_physical_cores = 0
    /\ per_core_cpu_usage = <<>>
    /\ stats = <<>>
    /\ io_counters = <<>>
    /\ if_addrs = <<>>
    /\ nicIdx = 0
    /\ temps = <<>>
    /\ fans = <<>>
    /\ battery = Nothing
    /\ names = {}
    /\ clock = <<>>

\* the state when the script is started
Init ==
    /\ pc = "begin"
    /\ secs = 0
    /\ st = Nothing
    /\ InitCommon

\* An exception leaves the section and, uncaught in __main__, ends the run.
Raise(section) ==
    /\ pc' = "aborted"
    /\ failed' = section
    /\ UNCHANGED <<idx, started, finished>>

\* return from a section to the __main__ block
Return(section) ==
    /\ pc' = "main"
    /\ idx' = idx + 1
    /\ finished' = Append(finished, section)
    /\ UNCHANGED <<started, failed>>

\* The locals of a section.  They are out of scope once it returns; the model
\* clears them when the next section is called.
FreshLocals ==
    /\ num_physical_cores' = 0
    /\ per_core_cpu_usage' = <<>>
    /\ stats' = <<>>
    /\ io_counters' = <<>>
    /\ if_addrs' = <<>>
    /\ nicIdx' = 0
    /\ temps' = <<>>
    /\ fans' = <<>>
    /\ battery' = Nothing
    /\ names' = {}

\* a call from the __main__ block
Called(section) ==
    /\ pc = "main"
    /\ idx <= Len(MainCalls)
    /\ MainCalls[idx] = section
    /\ started' = Append(started, section)
    /\ FreshLocals
    /\ UNCHANGED <<samples, aggSample, coreSample, fnVars>>

print_section_header(name) == <<name, SECTION_SPAN>>

\* print('\n'): the newline given and the one print adds
Begin ==
    /\ pc = "begin"
    /\ out' = <<Blank, Blank>>
    /\ pc' = "main"
    /\ UNCHANGED <<idx, started, finished, failed, cpuVars, netVars, climVars, fnVars>>

print_program_header ==
    /\ Called("banner")
    /\ out' = <<SECTION_SPAN, SPACER, PROGRAM_NAME, SPACER, SECTION_SPAN>>
    /\ pc' = "main"
    /\ idx' = idx + 1
    /\ finished' = Append(finished, "banner")
    /\ UNCHANGED failed

\* ------------------------------------------------------------ get_cpu_info

Percents == {0, 42}
\* scpufreq(current, min, max) in tenths of a MHz
Freqs == {<<24005, 8000, 36000>>}

\* seconds psutil.cpu_percent sleeps: interval > 0 blocks for the interval
AggregateInterval == 1
PerCoreIntervalNone == AggregateInterval - 1
PerCoreInterval == 1
Blocks(interval) == IF interval > 0 THEN 1 ELSE 0

CpuHeader ==
    /\ Called("cpu")
    /\ out' = print_section_header(CPU_INFO)
    /\ pc' = "cpu_aggregate"
    /\ UNCHANGED <<idx, finished, failed>>

CpuAggregate ==
    /\ pc = "cpu_aggregate"
    /\ \E ok \in BOOLEAN :
         IF ok
         THEN \E aggregate_cpu_usage \in Percents :
                /\ samples' = samples + Blocks(AggregateInterval)
                /\ aggSample' = samples'
                /\ out' = Append(out, Line("Aggregate CPU usage", <<aggregate_cpu_usage>>))
                /\ pc' = "cpu_physical"
                /\ UNCHANGED <<idx, started, finished, failed>>
         ELSE /\ Raise("cpu")
              /\ UNCHANGED <<out, samples, aggSample>>
    /\ UNCHANGED <<coreSample, num_physical_cores, per_core_cpu_usage, netVars, climVars, fnVars>>

CpuPhysical ==
    /\ pc = "cpu_physical"
    /\ \E n \in 1..MaxCores :
         /\ num_physical_cores' = n
         /\ out' = Append(out, Line("Physical cores", <<n>>))
    /\ pc' = "cpu_percore"
    /\ UNCHANGED <<idx, started, finished, failed, samples, aggSample, coreSample,
                   per_core_cpu_usage, netVars, climVars, fnVars>>

CpuPerCore ==
    /\ pc = "cpu_percore"
    /\ \E ok \in BOOLEAN :
         IF ok
         THEN \E n \in num_physical_cores..MaxCores :
              \E usage \in [1..n -> Percents] :
                /\ samples' = samples + Blocks(PerCoreInterval)
                /\ coreSample' = samples'
                /\ per_core_cpu_usage' = usage
                /\ out' = Append(out, Line("Individual core usage", <<usage>>))
                /\ pc' = "cpu_logical"
                /\ UNCHANGED <<idx, started, finished, failed>>
         ELSE /\ Raise("cpu")
              /\ UNCHANGED <<out, samples, coreSample, per_core_cpu_usage>>
    /\ UNCHANGED <<aggSample, num_physical_cores, netVars, climVars, fnVars>>

CpuLogical ==
    /\ pc = "cpu_logical"
    /\ out' = Append(out, Line("Cores including HT", <<Len(per_core_cpu_usage)>>))
    /\ pc' = "cpu_freq"
    /\ UNCHANGED <<idx, started, finished, failed, cpuVars, netVars, climVars, fnVars>>

\* int(x) of a float x >= 0 carried in tenths
IntOfTenths(x) == x \div 10

\* psutil.cpu_freq() is None where the platform reports no frequency, and
\* subscripting None raises TypeError.
CpuFreq ==
    /\ pc = "cpu_freq"
    /\ \E cpu_freq_stats \in {Some(f) : f \in Freqs} \cup {Nothing} :
         IF cpu_freq_stats # Nothing
         THEN LET f == cpu_freq_stats[1]
              IN  /\ out' = out \o <<Line("Current, min and max CPU MHz",
                                         <<IntOfTenths(f[1]), IntOfTenths(f[2]), IntOfTenths(f[3])>>),
                                    SECTION_SPAN>>
                  /\ Return("cpu")
         ELSE /\ Raise("cpu")
              /\ UNCHANGED out
    /\ UNCHANGED <<cpuVars, netVars, climVars, fnVars>>

\* --------------------------------------------------------- get_memory_info

\* svmem fields read by the section: (available, percent)
MemStats == {<<1610612736, 25>>, <<67108864, 97>>}

MemoryHeader ==
    /\ Called("memory")
    /\ out' = print_section_header(MEMORY_INFO)
    /\ pc' = "memory_read"
    /\ UNCHANGED <<idx, finished, failed>>

MemoryBody ==
    /\ pc = "memory_read"
    /\ \E mem_stats \in MemStats :
         out' = out \o <<Line("Memory used", <<mem_stats[2]>>),
                         Line("Free memory (GB)", <<bytes_to_gb(mem_stats[1])>>),
                         SECTION_SPAN>>
    /\ Return("memory")
    /\ UNCHANGED <<cpuVars, netVars, climVars, fnVars>>

\* ----------------------------------------------------------- get_disk_info

\* sdiskusage fields read by the section: (total, percent)
DiskStats == {<<1610612736, 40>>}

DiskHeader ==
    /\ Called("disk")
    /\ out' = print_section_header(DISK_INFO)
    /\ pc' = "disk_read"
    /\ UNCHANGED <<idx, finished, failed>>

\* psutil.disk_usage('/') raises OSError when the path cannot be read
DiskBody ==
    /\ pc = "disk_read"
    /\ \E ok \in BOOLEAN :
         IF ok
         THEN \E disk_usage_stats \in DiskStats :
                /\ out' = out \o <<Line("Disk size (GB)", <<bytes_to_gb(disk_usage_stats[1])>>),
                                   Line("Percent disk used", <<disk_usage_stats[2]>>),
                                   SECTION_SPAN>>
                /\ Return("disk")
         ELSE /\ Raise("disk")
              /\ UNCHANGED out
    /\ UNCHANGED <<cpuVars, netVars, climVars, fnVars>>

\* -------------------------------------------------------- get_network_info

Truthy(s) == s # None /\ s # ""

af_map == (AF_INET :> "IPv4") @@ (AF_INET6 :> "IPv6") @@ (AF_LINK :> "MAC")

duplex_map ==
    (NIC_DUPLEX_FULL :> "full") @@ (NIC_DUPLEX_HALF :> "half") @@ (NIC_DUPLEX_UNKNOWN :> "?")

\* af_map.get(addr.family, addr.family): the label, or the code itself
af_label(family) ==
    IF family \in DOMAIN af_map THEN <<"label", af_map[family]>> ELSE <<"code", family>>

\* duplex_map[st.duplex] raises KeyError for a key the dict does not hold
duplex_raises(code) == code \notin DOMAIN duplex_map

\* the names psutil gives the interfaces, in the order net_if_addrs() lists them
NicPool == <<"lo", "eth0", "wlan0", "tun0">>
NicNames(n) == {NicPool[i] : i \in 1..n}

\* snicstats as psutil builds them: duplex is a member of NicDuplex
StatsValues ==
    { [isup |-> TRUE, duplex |-> NIC_DUPLEX_FULL, speed |-> 1000, mtu |-> 1500],
      [isup |-> FALSE, duplex |-> NIC_DUPLEX_HALF, speed |-> 10, mtu |-> 1500],
      [isup |-> TRUE, duplex |-> NIC_DUPLEX_UNKNOWN, speed |-> 0, mtu |-> 65536] }

IoValues ==
    { [bytes_recv |-> 10000, packets_recv |-> 12, errin |-> 0, dropin |-> 1,
       bytes_sent |-> 2097152, packets_sent |-> 7, errout |-> 0, dropout |-> 0] }

Addr(family, address, netmask, broadcast, ptp) ==
    [family |-> family, address |-> address, netmask |-> netmask,
     broadcast |-> broadcast, ptp |-> ptp]

\* the address lists of an interface; family 1 (AF_UNIX) stands for a family
\* af_map has no key for
AddrLists ==
    { <<>>,
      <<Addr(AF_INET, "192.168.1.7", "255.255.255.0", "192.168.1.255", None),
        Addr(AF_INET6, "fe80::1", "ffff:ffff:ffff:ffff::", None, None)>>,
      <<Addr(AF_LINK, "00:11:22:33:44:55", None, "ff:ff:ff:ff:ff:ff", None),
        Addr(1, "10.8.0.2", "", "", "10.8.0.1")>> }

PartialFns(D, R) == UNION {[S -> R] : S \in SUBSET D}

\* lines 126-131: the stats line of an interface
StatsLine(s) ==
    Line("stats", <<s.speed, duplex_map[s.duplex], s.mtu, IF s.isup THEN "yes" ELSE "no">>)

\* lines 125-131: the unfinished line printed with end='' stays on the
\* terminal when the lookup raises
StatsOutcome(s) ==
    IF duplex_raises(s.duplex)
    THEN [raised |-> TRUE, lines |-> <<Line("stats-unfinished", <<>>)>>]
    ELSE [raised |-> FALSE, lines |-> <<StatsLine(s)>>]

\* lines 134-137
IoLines(io) ==
    << Line("incoming", <<bytes2human(io.bytes_recv), io.packets_recv, io.errin, io.dropin>>),
       Line("outgoing", <<bytes2human(io.bytes_sent), io.packets_sent, io.errout, io.dropout>>) >>

\* lines 139-146 with "if addr.broadcast" read as "is not None"
AddrLinesNotNone(addr) ==
    <<Line("address", <<af_label(addr.family), addr.address>>)>>
    \o (IF addr.broadcast # None THEN <<Line("broadcast", <<addr.broadcast>>)>> ELSE <<>>)
    \o (IF Truthy(addr.netmask) THEN <<Line("netmask", <<addr.netmask>>)>> ELSE <<>>)
    \o (IF Truthy(addr.ptp) THEN <<Line("p2p", <<addr.ptp>>)>> ELSE <<>>)

\* lines 139-146: the lines of one address
AddrLines(addr) ==
    <<Line("address", <<af_label(addr.family), addr.address>>)>>
    \o (IF Truthy(addr.broadcast) THEN <<Line("broadcast", <<addr.broadcast>>)>> ELSE <<>>)
    \o (IF Truthy(addr.netmask) THEN <<Line("netmask", <<addr.netmask>>)>> ELSE <<>>)
    \o (IF Truthy(addr.ptp) THEN <<Line("p2p", <<addr.ptp>>)>> ELSE <<>>)

RECURSIVE AddrsLines(_)
AddrsLines(addrs) ==
    IF addrs = <<>> THEN <<>> ELSE AddrLines(Head(addrs)) \o AddrsLines(Tail(addrs))

NetworkHeader ==
    /\ Called("network")
    /\ out' = print_section_header(NETWORK_INFO)
    /\ pc' = "network_read"
    /\ UNCHANGED <<idx, finished, failed>>

\* lines 117-122: the host line and the three reads; a read the OS denies raises
NetworkRead ==
    /\ pc = "network_read"
    /\ \E ok \in BOOLEAN :
         IF ok
         THEN \E n \in 0..MaxNics :
              \E s \in PartialFns(NicNames(MaxNics), StatsValues) :
              \E io \in PartialFns(NicNames(MaxNics), IoValues) :
              \E a \in [1..n -> AddrLists] :
                /\ stats' = s
                /\ io_counters' = io
                /\ if_addrs' = [i \in 1..n |-> <<NicPool[i], a[i]>>]
                /\ nicIdx' = 1
                /\ out' = Append(out, Line("Host", <<"hostname">>))
                /\ pc' = "network_loop"
                /\ UNCHANGED <<idx, started, finished, failed>>
         ELSE /\ Raise("network")
              /\ out' = Append(out, Line("Host", <<"hostname">>))
              /\ UNCHANGED netVars
    /\ UNCHANGED <<cpuVars, climVars, fnVars>>

\* lines 122-147: one iteration of the loop over net_if_addrs().items()
NetworkNic ==
    /\ pc = "network_loop"
    /\ nicIdx <= Len(if_addrs)
    /\ LET nic == if_addrs[nicIdx][1]
           addrs == if_addrs[nicIdx][2]
       IN  IF nic \in DOMAIN stats /\ StatsOutcome(stats[nic]).raised
           THEN /\ out' = out \o <<Line("nic", <<nic>>)>> \o StatsOutcome(stats[nic]).lines
                /\ Raise("network")
                /\ UNCHANGED nicIdx
           ELSE /\ out' = out
                       \o <<Line("nic", <<nic>>)>>
                       \o (IF nic \in DOMAIN stats THEN StatsOutcome(stats[nic]).lines ELSE <<>>)
                       \o (IF nic \in DOMAIN io_counters THEN IoLines(io_counters[nic]) ELSE <<>>)
                       \o AddrsLines(addrs)
                       \o <<Blank>>
                /\ nicIdx' = nicIdx + 1
                /\ UNCHANGED <<pc, idx, started, finished, failed>>
    /\ UNCHANGED <<stats, io_counters, if_addrs, cpuVars, climVars, fnVars>>

NetworkEnd ==
    /\ pc = "network_loop"
    /\ nicIdx > Len(if_addrs)
    /\ out' = Append(out, SECTION_SPAN)
    /\ Return("network")
    /\ UNCHANGED <<cpuVars, netVars, climVars, fnVars>>

\* -------------------------------------------------------------- secs2hours

Digit(d) == <<"0", "1", "2", "3", "4", "5", "6", "7", "8", "9">>[d + 1]

RECURSIVE Dec(_)
Dec(n) == IF n < 10 THEN <<Digit(n)>> ELSE Append(Dec(n \div 10), Digit(n % 10))

\* '%d'
Fmt_d(n) == IF n < 0 THEN <<"-">> \o Dec(-n) ELSE Dec(n)

\* '%02d': zero-padded to a width of 2
Fmt_02d(n) == IF Len(Fmt_d(n)) < 2 THEN <<"0">> \o Fmt_d(n) ELSE Fmt_d(n)

\* secs2hours with '%d:%d:%d'
secs2hoursUnpadded(s) ==
    LET mm0 == s \div 60
        ss == s % 60
        hh == mm0 \div 60
        mm == mm0 % 60
    IN  Fmt_d(hh) \o <<":">> \o Fmt_d(mm) \o <<":">> \o Fmt_d(ss)

\* divmod is floor division and a remainder with the sign of the divisor
secs2hours(s) ==
    LET mm0 == s \div 60
        ss == s % 60
        hh == mm0 \div 60
        mm == mm0 % 60
    IN  Fmt_d(hh) \o <<":">> \o Fmt_02d(mm) \o <<":">> \o Fmt_02d(ss)

\* ----------------------------------------------------- get_hw_temperatures

GroupPool == <<"coretemp", "acpitz", "nvme", "thinkpad">>
GroupNames == {GroupPool[i] : i \in 1..MaxGroups}

\* shwtemp(label, current, high, critical) lists of a group
TempLists ==
    { <<[label |-> "", current |-> 45, high |-> 80, critical |-> 100]>>,
      <<[label |-> "Core 0", current |-> 51, high |-> 80, critical |-> 100],
        [label |-> "", current |-> 49, high |-> 80, critical |-> 100]>> }

\* sfan(label, current) lists of a group
FanLists ==
    { <<[label |-> "", current |-> 2100]>>,
      <<[label |-> "cpu_fan", current |-> 3000], [label |-> "", current |-> 0]>> }

\* sbattery(percent, secsleft, power_plugged); percent in thousandths of a
\* percent.  psutil gives secsleft as -2 (POWER_TIME_UNLIMITED) on mains
\* power and as -1 (POWER_TIME_UNKNOWN) when it cannot tell.
Batteries ==
    { [percent |-> p, secsleft |-> -2, power_plugged |-> "True"] :
        p \in {49996, 100000} }
    \cup { [percent |-> 49996, secsleft |-> s, power_plugged |-> "False"] :
             s \in {3661, -1} }
    \cup { [percent |-> 100000, secsleft |-> 59, power_plugged |-> "False"],
           [percent |-> 49996, secsleft |-> -1, power_plugged |-> None] }

\* truth value of power_plugged: None and False are false
Plugged(b) == b.power_plugged = "True"

\* line 175 with the battery left out of the test
NoSensorDataIgnoringBattery(t, f, b) == ~(DOMAIN t # {} \/ DOMAIN f # {})

\* line 175: not any((temps, fans, battery)); a dict is true when it has a key,
\* a named tuple always
NoSensorData(t, f, b) == ~(DOMAIN t # {} \/ DOMAIN f # {} \/ b # Nothing)

\* line 179 with the fans forgotten
SensorNamesOfTemps(t, f) == DOMAIN t

\* line 179: set(list(temps.keys()) + list(fans.keys()))
SensorNames(t, f) == DOMAIN t \cup DOMAIN f

\* entry.label or name
LabelOr(label, name) == IF label # "" THEN label ELSE name

\* lines 181-194: the body of the loop for one name
GroupLines(name) ==
    <<Line("group", <<name>>)>>
    \o (IF name \in DOMAIN temps
        THEN <<Line("Temperatures:", <<>>)>>
             \o [i \in 1..Len(temps[name]) |->
                   LET entry == temps[name][i]
                   IN  Line("temperature", <<LabelOr(entry.label, name), entry.current,
                                             entry.high, entry.critical>>)]
        ELSE <<>>)
    \o (IF name \in DOMAIN fans
        THEN <<Line("Fans:", <<>>)>>
             \o [i \in 1..Len(fans[name]) |->
                   LET entry == fans[name][i]
                   IN  Line("fan", <<LabelOr(entry.label, name), entry.current>>)]
        ELSE <<>>)

\* lines 201-202 with <= for <
BatteryStatusLe(b) == IF b.percent <= 100000 THEN "charging" ELSE "fully charged"

\* lines 201-202
BatteryStatus(b) == IF b.percent < 100000 THEN "charging" ELSE "fully charged"

\* lines 197-207; round(battery.percent, 2) in hundredths
BatteryLines(bat) ==
    IF bat = Nothing
    THEN <<>>
    ELSE LET b == bat[1]
         IN  <<Line("Battery:", <<>>), Line("charge", <<RoundDiv(b.percent, 10)>>)>>
             \o (IF Plugged(b)
                 THEN <<Line("status", <<BatteryStatus(b)>>), Line("plugged in", <<"yes">>)>>
                 ELSE <<Line("left", <<secs2hours(b.secsleft)>>),
                        Line("status", <<"discharging">>), Line("plugged in", <<"no">>)>>)

CannotRead == Line("message", <<"Cannot read temperature, fans or battery info">>)

ClimateHeader ==
    /\ Called("climate")
    /\ out' = print_section_header(CLIMATE_INFO)
    /\ pc' = "climate_read"
    /\ UNCHANGED <<idx, finished, failed>>

\* lines 162-173: a capability psutil lacks reads as {} or None, as does a
\* platform with no such sensor
ClimateRead ==
    /\ pc = "climate_read"
    /\ \E t \in PartialFns(GroupNames, TempLists) :
       \E f \in PartialFns(GroupNames, FanLists) :
       \E b \in {Nothing} \cup {Some(x) : x \in Batteries} :
         /\ temps' = t
         /\ fans' = f
         /\ battery' = b
    /\ pc' = "climate_check"
    /\ UNCHANGED <<idx, out, started, finished, failed, names, cpuVars, netVars, fnVars>>

\* lines 175-179
ClimateCheck ==
    /\ pc = "climate_check"
    /\ IF NoSensorData(temps, fans, battery)
       THEN /\ out' = Append(out, CannotRead)
            /\ Return("climate")
            /\ UNCHANGED names
       ELSE /\ names' = SensorNames(temps, fans)
            /\ pc' = "climate_names"
            /\ UNCHANGED <<idx, out, started, finished, failed>>
    /\ UNCHANGED <<temps, fans, battery, cpuVars, netVars, fnVars>>

\* lines 180-194: one iteration; a set is iterated in no particular order
ClimateName ==
    /\ pc = "climate_names"
    /\ \E name \in names :
         /\ out' = out \o GroupLines(name)
         /\ names' = names \ {name}
    /\ UNCHANGED <<pc, idx, started, finished, failed, temps, fans, battery,
                   cpuVars, netVars, fnVars>>

\* lines 196-208
ClimateBattery ==
    /\ pc = "climate_names"
    /\ names = {}
    /\ out' = out \o BatteryLines(battery) \o <<SECTION_SPAN>>
    /\ Return("climate")
    /\ UNCHANGED <<cpuVars, netVars, climVars, fnVars>>

\* ------------------------------------------------------------ the program

\* the __main__ block has run to its end
Exit ==
    /\ pc = "main"
    /\ idx > Len(MainCalls)
    /\ pc' = "done"
    /\ UNCHANGED <<idx, out, started, finished, failed, cpuVars, netVars, climVars, fnVars>>

Next ==
    \/ Begin
    \/ print_program_header
    \/ CpuHeader
    \/ CpuAggregate
    \/ CpuPhysical
    \/ CpuPerCore
    \/ CpuLogical
    \/ CpuFreq
    \/ MemoryHeader
    \/ MemoryBody
    \/ DiskHeader
    \/ DiskBody
    \/ NetworkHeader
    \/ NetworkRead
    \/ NetworkNic
    \/ NetworkEnd
    \/ ClimateHeader
    \/ ClimateRead
    \/ ClimateCheck
    \/ ClimateName
    \/ ClimateBattery
    \/ Exit

Spec == Init /\ [][Next]_vars

\* ------------------------------------------------- secs2hours on its own

\* secs2hours called with any number of seconds from 0 to MaxSecs
InitClock ==
    /\ pc = "secs2hours_call"
    /\ secs \in 0..MaxSecs
    /\ st = Nothing
    /\ InitCommon

Secs2HoursCall ==
    /\ pc = "secs2hours_call"
    /\ clock' = secs2hours(secs)
    /\ pc' = "secs2hours_ret"
    /\ UNCHANGED <<idx, out, started, finished, failed, cpuVars, netVars, climVars, secs, st>>

NextClock == Secs2HoursCall

SpecClock == InitClock /\ [][NextClock]_vars

\* ------------------------------------------- the stats line on its own

\* Lines 125-131 run on link stats carrying any duplex code from 0 to
\* MaxDuplexCode, those duplex_map has no key for included.
Speeds == {0, 10, 1000}
Mtus == {576, 1500, 9000, 65536}

InitDuplex ==
    /\ pc = "stats_line"
    /\ secs = 0
    /\ st \in {Some(x) : x \in [isup : BOOLEAN, duplex : 0..MaxDuplexCode,
                                speed : Speeds, mtu : Mtus]}
    /\ InitCommon

PrintStats ==
    /\ pc = "stats_line"
    /\ out' = StatsOutcome(st[1]).lines
    /\ IF StatsOutcome(st[1]).raised
       THEN Raise("network")
       ELSE /\ pc' = "stats_printed"
            /\ UNCHANGED <<idx, started, finished, failed>>
    /\ UNCHANGED <<cpuVars, netVars, climVars, fnVars>>

NextDuplex == PrintStats

SpecDuplex == InitDuplex /\ [][NextDuplex]_vars

\* ------------------------------------------------------- reading out

Last(seq) == seq[Len(seq)]
Ran(section) == \E i \in 1..Len(finished) : finished[i] = section
Began(section) == \E i \in 1..Len(started) : started[i] = section
\* the section has returned and out still holds its lines
JustReturned(section) ==
    /\ pc \in {"main", "done"}
    /\ finished # <<>>
    /\ Last(finished) = section

IsSpan(l) == l.kind = "raw" /\ l.args = Repeat("*", 80)
\* the places of out holding a line of one of the kinds
At(kinds) == {i \in 1..Len(out) : out[i].kind \in kinds}
\* the j-th smallest member of a set of places
Nth(S, j) == CHOOSE i \in S : Cardinality({x \in S : x < i}) = j - 1
\* how many places from lo to hi hold a line of the kind
Count(kind, lo, hi) == Cardinality({i \in lo..hi : out[i].kind = kind})

ReportOrder == <<"banner", "cpu", "memory", "disk", "network", "climate">>

\* C1: the sections are started in the order banner, CPU, memory, disk,
\* network, climate, each at most once, and a section is started only when
\* the one before it has finished.
C1_FixedOrder ==
    /\ Len(started) <= Len(ReportOrder)
    /\ \A i \in 1..Len(started) : started[i] = ReportOrder[i]
    /\ Len(finished) <= Len(started)
    /\ Len(started) <= Len(finished) + 1
    /\ \A i \in 1..Len(finished) : finished[i] = started[i]

C1_Witness == pc = "done" /\ started = ReportOrder /\ finished = ReportOrder

\* C2: when the read of a section fails, every later section is still run
\* by the time the program has ended.
C2_LaterSectionsRun ==
    (pc \in {"done", "aborted"} /\ failed # "none") =>
        \A i, j \in 1..Len(ReportOrder) :
            (ReportOrder[i] = failed /\ i < j) => Began(ReportOrder[j])

\* C3: a report section that has returned has printed the banner line of 80
\* stars as its last line, and only once after the one under its title.
C3_OneBottomBanner ==
    \A section \in {"cpu", "memory", "disk", "network", "climate"} :
        JustReturned(section) =>
            /\ IsSpan(Last(out))
            /\ Cardinality({i \in 1..Len(out) : IsSpan(out[i])}) = 2

C4_Emitted == At({"message"}) # {}
C4_Checked == pc = "climate_names" \/ JustReturned("climate")

\* C4: the climate section prints the "cannot read" message exactly when the
\* temperature map and the fan map are empty and there is no battery; with
\* the message it prints no sensor group and no battery block.
C4_CannotReadIff ==
    C4_Checked =>
        /\ C4_Emitted <=> (DOMAIN temps = {} /\ DOMAIN fans = {} /\ battery = <<>>)
        /\ Cardinality(At({"message"})) <= 1
        /\ C4_Emitted =>
             At({"group", "Temperatures:", "temperature", "Fans:", "fan", "Battery:",
                 "charge", "left", "status", "plugged in"}) = {}

C4_Witness == JustReturned("climate") /\ C4_Emitted

C6_Digits == <<"0", "1", "2", "3", "4", "5", "6", "7", "8", "9">>
C6_IsDigit(c) == \E d \in 1..10 : C6_Digits[d] = c
C6_Value(c) == (CHOOSE d \in 1..10 : C6_Digits[d] = c) - 1
RECURSIVE C6_Number(_)
C6_Number(cs) ==
    IF Len(cs) = 1 THEN C6_Value(cs[1])
    ELSE 10 * C6_Number(SubSeq(cs, 1, Len(cs) - 1)) + C6_Value(Last(cs))

\* C6: secs2hours(s) for 0 <= s reads H:MM:SS with H = s div 3600 in as many
\* digits as it needs, MM = (s div 60) mod 60 and SS = s mod 60 in two digits
\* each; 3661 gives 1:01:01, 59 gives 0:00:59 and 3600 gives 1:00:00.
C6_Clock ==
    pc = "secs2hours_ret" =>
        LET n == Len(clock)
            hours == SubSeq(clock, 1, n - 6)
        IN  /\ n >= 7
            /\ clock[n - 5] = ":" /\ clock[n - 2] = ":"
            /\ \A i \in (1..n) \ {n - 5, n - 2} : C6_IsDigit(clock[i])
            /\ Len(hours) > 1 => hours[1] # "0"
            /\ C6_Number(hours) = secs \div 3600
            /\ C6_Number(SubSeq(clock, n - 4, n - 3)) = (secs \div 60) % 60
            /\ C6_Number(SubSeq(clock, n - 1, n)) = secs % 60
            /\ C6_Number(hours) * 3600 + C6_Number(SubSeq(clock, n - 4, n - 3)) * 60
                 + C6_Number(SubSeq(clock, n - 1, n)) = secs
            /\ secs = 3661 => clock = <<"1", ":", "0", "1", ":", "0", "1">>
            /\ secs = 59 => clock = <<"0", ":", "0", "0", ":", "5", "9">>
            /\ secs = 3600 => clock = <<"1", ":", "0", "0", ":", "0", "0">>

C6_Witness == pc = "secs2hours_ret" /\ secs = 3661 /\ Len(clock) = 7

C7_Present(x) == x # "None" /\ x # ""
C7_Applies == pc = "network_loop" \/ JustReturned("network")
\* the interfaces whose iteration is over, and the last line they printed
C7_Listed == IF pc = "network_loop" THEN nicIdx - 1 ELSE Len(if_addrs)
C7_End == IF pc = "network_loop" THEN Len(out) ELSE Len(out) - 1
C7_From(j) == Nth(At({"nic"}), j)
C7_To(j) == IF j < C7_Listed THEN Nth(At({"nic"}), j + 1) - 1 ELSE C7_End
C7_One(b) == IF b THEN 1 ELSE 0

\* C7: each interface of the address read is listed once by name, its lines
\* end with one blank line, and between its name and that blank line there
\* is a stats line iff it has link stats, an incoming and an outgoing line
\* iff it has IO counters, one address line per address, and after an
\* address a broadcast, netmask and p2p line iff that field is neither None
\* nor empty; nothing else is printed.
C7_InterfaceLines ==
    C7_Applies =>
        /\ Cardinality(At({"nic"})) = C7_Listed
        /\ C7_Listed = 0 => C7_End = 3
        /\ C7_Listed > 0 => C7_From(1) = 4
        /\ \A j \in 1..C7_Listed :
             LET nic == if_addrs[j][1]
                 addrs == if_addrs[j][2]
                 lo == C7_From(j)
                 hi == C7_To(j)
                 addrAt == {i \in lo..hi : out[i].kind = "address"}
                 first == IF addrs = <<>> THEN hi ELSE Nth(addrAt, 1)
             IN  /\ out[lo].args[1] = nic
                 /\ out[hi].kind = "blank"
                 /\ Count("blank", lo, hi) = 1
                 /\ Count("stats", lo, hi) = C7_One(nic \in DOMAIN stats)
                 /\ Count("incoming", lo, hi) = C7_One(nic \in DOMAIN io_counters)
                 /\ Count("outgoing", lo, hi) = C7_One(nic \in DOMAIN io_counters)
                 /\ Cardinality(addrAt) = Len(addrs)
                 /\ first - lo - 1 = C7_One(nic \in DOMAIN stats)
                                       + 2 * C7_One(nic \in DOMAIN io_counters)
                 /\ \A a \in 1..Len(addrs) :
                      LET p == Nth(addrAt, a)
                          q == IF a < Len(addrs) THEN Nth(addrAt, a + 1) - 1 ELSE hi - 1
                      IN  /\ out[p].args[2] = addrs[a].address
                          /\ Count("broadcast", p, q) = C7_One(C7_Present(addrs[a].broadcast))
                          /\ Count("netmask", p, q) = C7_One(C7_Present(addrs[a].netmask))
                          /\ Count("p2p", p, q) = C7_One(C7_Present(addrs[a].ptp))
                          /\ q - p = C7_One(C7_Present(addrs[a].broadcast))
                                       + C7_One(C7_Present(addrs[a].netmask))
                                       + C7_One(C7_Present(addrs[a].ptp))

\* two interfaces listed: one without stats or IO counters whose address has
\* empty netmask and broadcast strings, one with both and no address
C7_Witness ==
    /\ JustReturned("network")
    /\ Len(if_addrs) = 2
    /\ if_addrs[1][1] \notin DOMAIN stats
    /\ if_addrs[1][1] \notin DOMAIN io_counters
    /\ Len(if_addrs[1][2]) = 2
    /\ if_addrs[1][2][2].broadcast = ""
    /\ if_addrs[2][1] \in DOMAIN stats
    /\ if_addrs[2][1] \in DOMAIN io_counters
    /\ if_addrs[2][2] = <<>>
    /\ Count("stats", 1, Len(out)) = 1

C8_Arg(kind) == out[Nth(At({kind}), 1)].args[1]

\* C8: with a battery the climate section prints one battery block with one
\* status: on mains power "charging" below 100 percent and "fully charged"
\* at 100, "plugged in: yes" and no time left; otherwise the time left as
\* secs2hours gives it for secsleft, "discharging" and "plugged in: no".
\* The block does not depend on the temperature and fan maps.
C8_BatteryBlock ==
    (JustReturned("climate") /\ battery # <<>>) =>
        LET b == battery[1]
        IN  /\ Cardinality(At({"Battery:"})) = 1
            /\ Cardinality(At({"charge"})) = 1
            /\ Cardinality(At({"status"})) = 1
            /\ Cardinality(At({"plugged in"})) = 1
            /\ b.power_plugged = "True" =>
                 /\ b.percent < 100000 => C8_Arg("status") = "charging"
                 /\ b.percent = 100000 => C8_Arg("status") = "fully charged"
                 /\ C8_Arg("plugged in") = "yes"
                 /\ At({"left"}) = {}
            /\ b.power_plugged # "True" =>
                 /\ Cardinality(At({"left"})) = 1
                 /\ C8_Arg("left") = secs2hours(b.secsleft)
                 /\ b.secsleft = 3661 => C8_Arg("left") = <<"1", ":", "0", "1", ":", "0", "1">>
                 /\ C8_Arg("status") = "discharging"
                 /\ C8_Arg("plugged in") = "no"

\* a full battery on mains power, and no temperature or fan group
C8_Witness ==
    /\ JustReturned("climate")
    /\ battery # <<>>
    /\ battery[1].power_plugged = "True"
    /\ battery[1].percent = 100000
    /\ DOMAIN temps = {} /\ DOMAIN fans = {}
    /\ At({"status"}) # {}

\* C9 as stated: a run blocks on one CPU sample, and the aggregate and the
\* per-core figures of the CPU section come from that sample.
C9_OneSample ==
    Ran("cpu") => (samples = 1 /\ aggSample = coreSample)

\* C9 as the code has it: only the CPU section blocks; once it has returned,
\* the run has blocked on two CPU samples, the aggregate figure comes from
\* the first and the per-core figures from the second.
C9_TwoSamples ==
    /\ samples <= 2
    /\ samples > 0 => Began("cpu")
    /\ ~Ran("cpu") => (pc \in {"aborted", "cpu_aggregate", "cpu_physical", "cpu_percore",
                               "cpu_logical", "cpu_freq"} \/ samples = 0)
    /\ Ran("cpu") => (samples = 2 /\ aggSample = 1 /\ coreSample = 2)

C9_Witness == pc = "done" /\ samples = 2 /\ aggSample = 1 /\ coreSample = 2

C10_Applies == JustReturned("climate") /\ ~C4_Emitted
C10_Names == DOMAIN temps \cup DOMAIN fans
C10_End ==
    IF At({"Battery:"}) # {} THEN Nth(At({"Battery:"}), 1) - 1 ELSE Len(out) - 1

\* C10: without the "cannot read" message the group names printed are those
\* of the temperature map and the fan map together, each once; under a name
\* come "Temperatures:" and a line per temperature entry iff the name is in
\* the temperature map, then "Fans:" and a line per fan entry iff it is in
\* the fan map, each entry under its label or, with an empty label, under
\* the group name.
C10_GroupLines ==
    C10_Applies =>
        /\ {out[i].args[1] : i \in At({"group"})} = C10_Names
        /\ Cardinality(At({"group"})) = Cardinality(C10_Names)
        /\ C10_Names # {} => Nth(At({"group"}), 1) = 3
        /\ \A j \in 1..Cardinality(At({"group"})) :
             LET lo == Nth(At({"group"}), j)
                 hi == IF j < Cardinality(At({"group"}))
                       THEN Nth(At({"group"}), j + 1) - 1 ELSE C10_End
                 name == out[lo].args[1]
                 nt == IF name \in DOMAIN temps THEN 1 + Len(temps[name]) ELSE 0
                 nf == IF name \in DOMAIN fans THEN 1 + Len(fans[name]) ELSE 0
             IN  /\ hi - lo = nt + nf
                 /\ name \in DOMAIN temps =>
                      /\ out[lo + 1].kind = "Temperatures:"
                      /\ \A e \in 1..Len(temps[name]) :
                           /\ out[lo + 1 + e].kind = "temperature"
                           /\ out[lo + 1 + e].args[1] =
                                IF temps[name][e].label = "" THEN name
                                ELSE temps[name][e].label
                 /\ name \in DOMAIN fans =>
                      /\ out[lo + nt + 1].kind = "Fans:"
                      /\ \A e \in 1..Len(fans[name]) :
                           /\ out[lo + nt + 1 + e].kind = "fan"
                           /\ out[lo + nt + 1 + e].args[1] =
                                IF fans[name][e].label = "" THEN name
                                ELSE fans[name][e].label

\* a group in both maps and a group with fans only
C10_Witness ==
    /\ C10_Applies
    /\ \E a, b \in C10_Names :
         /\ a \in DOMAIN temps /\ a \in DOMAIN fans
         /\ b \notin DOMAIN temps /\ b \in DOMAIN fans
         /\ Len(fans[b]) = 2
    /\ Cardinality(At({"group"})) = 2

====
